---- MODULE Spec2Model ----
(***************************************************************************)
(* Model of dr_param's YAML conversion layer (include/dr_param/yaml.hpp):  *)
(* parseYaml<T> and the std::array / std::vector / std::map converters,    *)
(* setIfExists, convertChild and YAML::convert<std::array<T, N>>::decode.  *)
(*                                                                         *)
(* Strings are sequences of one-character strings; an error message is the *)
(* sequence of the pieces the code concatenates.                           *)
(***************************************************************************)
EXTENDS Integers, Sequences, FiniteSets, TLC

\* ------------------------------------------------------------------ bounds

\* Largest number of nodes in an input document tree.
MaxNodes == 4

\* Largest N of a std::array<T, N> target.
MaxN == 2

\* ------------------------------------------------------- the document model

\* A node is a record: its kind (YAML::NodeType::value) and, by kind, its
\* scalar text, its children in order, its keys in order.
UndefinedNode == [kind |-> "Undefined"]

NullNode == [kind |-> "Null"]

ScalarNode(t) == [kind |-> "Scalar", text |-> t]

SequenceNode(cs) == [kind |-> "Sequence", children |-> cs]

MapNode(ks, vs) == [kind |-> "Map", keys |-> ks, children |-> vs]

\* YAML::Node::size(): the number of children of a sequence or map, else 0.
Size(node) ==
    IF node.kind \in {"Sequence", "Map"} THEN Len(node.children) ELSE 0

\* Scalar texts of the input documents: "42" and "x".
Texts == {<<"4", "2">>, <<"x">>}

\* Map keys of the input documents, and the keys looked up.
Keys == {<<"a">>, <<"b">>}

\* The values std::to_string and the scalar parser work with.
Digits == <<"0", "1", "2", "3", "4", "5", "6", "7", "8", "9">>

IsDigit(c) == \E i \in 1..10 : Digits[i] = c

DigitValue(c) == (CHOOSE i \in 1..10 : Digits[i] = c) - 1

Leaves == {NullNode} \cup {ScalarNode(t) : t \in Texts}

RECURSIVE Trees(_)
RECURSIVE Forests(_)
\* The scalar / null / sequence trees of exactly n nodes.
Trees(n) ==
    IF n = 1 THEN Leaves \cup {SequenceNode(<<>>)}
    ELSE {SequenceNode(f) : f \in Forests(n - 1)}

\* The sequences of trees of exactly m nodes in total.
Forests(m) ==
    IF m = 0 THEN {<<>>}
    ELSE UNION {{<<t>> \o f : t \in Trees(k), f \in Forests(m - k)} : k \in 1..m}

TreesUpTo(n) == UNION {Trees(k) : k \in 1..n}

\* The sequences of l distinct keys.
KeySeqs(l) ==
    {ks \in [1..l -> Keys] : \A i, j \in 1..l : i # j => ks[i] # ks[j]}

\* The map nodes of at most n nodes, keys unique.
MapNodes(n) ==
    UNION {{MapNode(ks, f) : ks \in KeySeqs(Len(f))} :
           f \in UNION {Forests(m) : m \in 0..(n - 1)}}


\* ------------------------------------------------------------ target types

ShortT == [k |-> "short"]

VectorT(E) == [k |-> "vector", elem |-> E]

ArrayT(E, N) == [k |-> "array", elem |-> E, n |-> N]

MapT(E) == [k |-> "map", elem |-> E]

Composites(S) ==
    {VectorT(E) : E \in S} \cup {MapT(E) : E \in S}
    \cup {ArrayT(E, N) : E \in S, N \in 1..MaxN}

\* The element types and the target types T of the calls parseYaml<T>(node).
ElemTypes == {ShortT} \cup Composites({ShortT})

TargetTypes == ElemTypes \cup Composites(ElemTypes)

\* The types T of setIfExists<T> and convertChild<T>.
LookupTypes == {ShortT} \cup {ArrayT(ShortT, N) : N \in 1..MaxN}

\* The values an object of type T can hold before anything is assigned to it:
\* a short is indeterminate (g is what the memory holds), a vector and a map
\* are empty, an array holds N such elements.
Indeterminate == {0, 7}

RECURSIVE DefaultInit(_, _)
DefaultInit(T, g) ==
    CASE T.k = "short" -> g
      [] T.k = "array" -> [i \in 1..T.n |-> DefaultInit(T.elem, g)]
      [] OTHER -> <<>>

\* ------------------------------------------------------------------ errors

RECURSIVE to_string(_)
\* std::to_string of an integer.
to_string(n) ==
    IF n < 0 THEN <<"-">> \o to_string(0 - n)
    ELSE IF n < 10 THEN <<Digits[n + 1]>>
    ELSE to_string(n \div 10) \o <<Digits[(n % 10) + 1]>>

\* dr::toString(YAML::NodeType::value)
toString(kind) ==
    CASE kind = "Undefined" -> <<"undefined">>
      [] kind = "Null" -> <<"null">>
      [] kind = "Scalar" -> <<"scalar">>
      [] kind = "Sequence" -> <<"sequence">>
      [] kind = "Map" -> <<"map">>

YamlNodeDescription(name, user_type, node_type) ==
    [name |-> name, user_type |-> user_type, node_type |-> node_type]

\* YamlError{message}: the trace starts empty.
YamlError(message) == [message |-> message, trace |-> <<>>]

\* YamlError::appendTrace: the description goes to the end of the trace.
appendTrace(error, description) ==
    [error EXCEPT !.trace = Append(@, description)]

\* What a call hands back: a value, an error, an exception in flight, or no
\* program at all (the static_assert of parseYaml rejects the instantiation).
Value(v) == [how |-> "value", value |-> v]

Error(e) == [how |-> "error", error |-> e]

Thrown(exception) == [how |-> "thrown", exception |-> exception]

IllFormed == [how |-> "ill-formed", diagnostic |-> "No yaml conversion defined for T"]

Returned == [how |-> "returned"]

NoOutcome == [how |-> "none"]

\* ---------------------------------------------------- primitive conversion

\* The value of a string of digits.
RECURSIVE Decimal(_)
Decimal(ds) ==
    IF ds = <<>> THEN 0
    ELSE 10 * Decimal(SubSeq(ds, 1, Len(ds) - 1)) + DigitValue(ds[Len(ds)])

\* A decimal integer literal: an optional sign and one digit or more (at most
\* six, so that the value stays a small integer; a short holds five).
IsIntegerLiteral(text) ==
    LET digits == IF text # <<>> /\ text[1] = "-" THEN Tail(text) ELSE text
    IN  /\ digits # <<>>
        /\ Len(digits) <= 6
        /\ \A i \in 1..Len(digits) : IsDigit(digits[i])

IntegerValue(text) ==
    IF text[1] = "-" THEN 0 - Decimal(Tail(text)) ELSE Decimal(text)

InShortRange(v) == -(2^15) <= v /\ v <= 2^15 - 1

\* convert(node, ParseYaml<short>)
convertShort(node) ==
    IF node.kind # "Scalar"
    THEN Error(YamlError(<<"unexpected node type, expected scalar, got ">>
                         \o toString(node.kind)))
    ELSE IF ~IsIntegerLiteral(node.text)
    THEN Error(YamlError(<<"invalid integer value: ">> \o node.text))
    ELSE IF ~InShortRange(IntegerValue(node.text))
    THEN Error(YamlError(<<"integer value out of range: ">> \o node.text))
    ELSE Value(IntegerValue(node.text))

\* ----------------------------------------------------------- the dispatcher

\* The conversion tag ParseYaml<T>. The std::map overload takes a
\* YamlResult<T> as its tag parameter instead: [tag |-> "YamlResult", ...].
ParseYamlTag(T) == [tag |-> "ParseYaml", type |-> T]

RECURSIVE can_convert_tagged(_)
\* estd::can_convert_tagged_v<YAML::Node const &, Tag>: whether an overload
\* convert(YAML::Node const &, Tag) is viable. The composite overloads take
\* part only when can_parse_yaml<T> holds for their element type.
can_convert_tagged(tag) ==
    LET T == tag.type
    IN  CASE T.k = "short" -> tag.tag = "ParseYaml"
          [] T.k = "array" ->
                tag.tag = "ParseYaml" /\ can_convert_tagged(ParseYamlTag(T.elem))
          [] T.k = "vector" ->
                tag.tag = "ParseYaml" /\ can_convert_tagged(ParseYamlTag(T.elem))
          [] T.k = "map" ->
                tag.tag = "YamlResult" /\ can_convert_tagged(ParseYamlTag(T.elem))

can_parse_yaml(T) == can_convert_tagged(ParseYamlTag(T))

RECURSIVE parseYaml(_, _, _)

\* ------------------------------------------------------ composite converters

\* The locals of a running composite converter: the element counter, the
\* iterator's position, the result under construction and, once the converter
\* has returned, what it returned. writes and attempted record the slots
\* written and the positions handed to parseYaml, in order.
Frame(result) ==
    [index |-> 0, it |-> 0, result |-> result, writes |-> <<>>,
     attempted |-> <<>>, returned |-> FALSE, ret |-> NoOutcome]

Return(frame, outcome) == [frame EXCEPT !.returned = TRUE, !.ret = outcome]

\* index >= N with int index and std::size_t N: index is converted to
\* std::size_t, so a negative index compares as a huge value.
IndexReaches(index, N) == index < 0 \/ index >= N

\* ArrayEnter with the length checked one way only: node.size() > N.
ArrayEnterSizeAtMost(node, T, g) ==
    IF node.kind # "Sequence"
    THEN Return(Frame(<<>>),
                Error(YamlError(<<"unexpected node type, expected sequence, got ">>
                                \o toString(node.kind))))
    ELSE IF Size(node) > T.n
    THEN Return(Frame(<<>>),
                Error(YamlError(<<"wrong number of elements, expected ">>
                                \o to_string(T.n) \o <<", got ">>
                                \o to_string(Size(node)))))
    ELSE Frame(DefaultInit(T, g))

\* ArrayEnter without the comparison of node.size() with N.
ArrayEnterNoSizeCheck(node, T, g) ==
    IF node.kind # "Sequence"
    THEN Return(Frame(<<>>),
                Error(YamlError(<<"unexpected node type, expected sequence, got ">>
                                \o toString(node.kind))))
    ELSE Frame(DefaultInit(T, g))

\* std::array, up to the loop.
ArrayEnter(node, T, g) ==
    IF node.kind # "Sequence"
    THEN Return(Frame(<<>>),
                Error(YamlError(<<"unexpected node type, expected sequence, got ">>
                                \o toString(node.kind))))
    ELSE IF Size(node) # T.n
    THEN Return(Frame(<<>>),
                Error(YamlError(<<"wrong number of elements, expected ">>
                                \o to_string(T.n) \o <<", got ">>
                                \o to_string(Size(node)))))
    ELSE Frame(DefaultInit(T, g))

\* ArrayIter with the counter advanced before the write: result[++index].
ArrayIterWritesNext(node, T, frame, g) ==
    IF IndexReaches(frame.index, T.n)
    THEN Return(frame,
                Error(YamlError(<<"sequence too long, expected ">>
                                \o to_string(T.n) \o <<", now at index ">>
                                \o to_string(frame.index))))
    ELSE LET i == node.children[frame.it + 1]
             element == parseYaml(i, T.elem, g)
             tried == [frame EXCEPT !.attempted = Append(@, frame.it)]
             written == IF frame.index + 2 \in DOMAIN frame.result
                        THEN [frame.result EXCEPT ![frame.index + 2] = element.value]
                        ELSE frame.result
         IN  IF element.how # "value"
             THEN Return(tried,
                         Error(appendTrace(element.error,
                               YamlNodeDescription(to_string(frame.index), <<>>, i.kind))))
             ELSE [tried EXCEPT !.result = written,
                                !.writes = Append(@, frame.index + 1),
                                !.index = @ + 1,
                                !.it = @ + 1]

\* std::array, one turn of the loop (the iterator is not at the end).
ArrayIter(node, T, frame, g) ==
    IF IndexReaches(frame.index, T.n)
    THEN Return(frame,
                Error(YamlError(<<"sequence too long, expected ">>
                                \o to_string(T.n) \o <<", now at index ">>
                                \o to_string(frame.index))))
    ELSE LET i == node.children[frame.it + 1]
             element == parseYaml(i, T.elem, g)
             tried == [frame EXCEPT !.attempted = Append(@, frame.it)]
         IN  IF element.how # "value"
             THEN Return(tried,
                         Error(appendTrace(element.error,
                               YamlNodeDescription(to_string(frame.index), <<>>, i.kind))))
             ELSE [tried EXCEPT !.result[frame.index + 1] = element.value,
                                !.writes = Append(@, frame.index),
                                !.index = @ + 1,
                                !.it = @ + 1]

\* std::array, after the loop.
ArrayExit(frame) == Return(frame, Value(frame.result))

RECURSIVE ArrayLoop(_, _, _, _)
ArrayLoop(node, T, frame, g) ==
    IF frame.returned THEN frame
    ELSE IF frame.it = Size(node) THEN ArrayExit(frame)
    ELSE ArrayLoop(node, T, ArrayIter(node, T, frame, g), g)

\* convert(node, ParseYaml<std::array<T, N>>)
convertArray(node, T, g) == ArrayLoop(node, T, ArrayEnter(node, T, g), g).ret

\* VectorEnter without the case of the null node.
VectorEnterNoNull(node) ==
    IF node.kind # "Sequence"
    THEN Return(Frame(<<>>),
                Error(YamlError(<<"unexpected node type, expected sequence, got ">>
                                \o toString(node.kind))))
    ELSE Frame(<<>>)

\* std::vector, up to the loop.
VectorEnter(node) ==
    IF node.kind = "Null" THEN Return(Frame(<<>>), Value(<<>>))
    ELSE IF node.kind # "Sequence"
    THEN Return(Frame(<<>>),
                Error(YamlError(<<"unexpected node type, expected sequence, got ">>
                                \o toString(node.kind))))
    ELSE Frame(<<>>)

\* VectorIter with the counter advanced before the element is converted.
VectorIterCountsFirst(node, T, frame, g) ==
    LET i == node.children[frame.it + 1]
        element == parseYaml(i, T.elem, g)
        tried == [frame EXCEPT !.attempted = Append(@, frame.it)]
    IN  IF element.how # "value"
        THEN Return(tried,
                    Error(appendTrace(element.error,
                          YamlNodeDescription(to_string(frame.index + 1), <<>>, i.kind))))
        ELSE [tried EXCEPT !.result = Append(@, element.value),
                           !.writes = Append(@, frame.index),
                           !.index = @ + 1,
                           !.it = @ + 1]

\* VectorIter that returns a new error with the element's message and its own
\* description alone, the element's trace lost.
VectorIterFreshTrace(node, T, frame, g) ==
    LET i == node.children[frame.it + 1]
        element == parseYaml(i, T.elem, g)
        tried == [frame EXCEPT !.attempted = Append(@, frame.it)]
    IN  IF element.how # "value"
        THEN Return(tried,
                    Error(appendTrace(YamlError(element.error.message),
                          YamlNodeDescription(to_string(frame.index), <<>>, i.kind))))
        ELSE [tried EXCEPT !.result = Append(@, element.value),
                           !.writes = Append(@, frame.index),
                           !.index = @ + 1,
                           !.it = @ + 1]

\* std::vector, one turn of the loop.
VectorIter(node, T, frame, g) ==
    LET i == node.children[frame.it + 1]
        element == parseYaml(i, T.elem, g)
        tried == [frame EXCEPT !.attempted = Append(@, frame.it)]
    IN  IF element.how # "value"
        THEN Return(tried,
                    Error(appendTrace(element.error,
                          YamlNodeDescription(to_string(frame.index), <<>>, i.kind))))
        ELSE [tried EXCEPT !.result = Append(@, element.value),
                           !.writes = Append(@, frame.index),
                           !.index = @ + 1,
                           !.it = @ + 1]

\* std::vector, after the loop.
VectorExit(frame) == Return(frame, Value(frame.result))

RECURSIVE VectorLoop(_, _, _, _)
VectorLoop(node, T, frame, g) ==
    IF frame.returned THEN frame
    ELSE IF frame.it = Size(node) THEN VectorExit(frame)
    ELSE VectorLoop(node, T, VectorIter(node, T, frame, g), g)

\* convert(node, ParseYaml<std::vector<T>>)
convertVector(node, T, g) == VectorLoop(node, T, VectorEnter(node), g).ret

\* std::map<std::string, T>::insert: an existing key keeps its value.
MapInsert(result, name, value) ==
    IF name \in DOMAIN result THEN result ELSE result @@ (name :> value)

\* std::map, up to the loop.
MapEnter(node) ==
    IF node.kind # "Map"
    THEN Return(Frame(<<>>),
                Error(YamlError(<<"unexpected node type, expected map, got ">>
                                \o toString(node.kind))))
    ELSE Frame(<<>>)

\* std::map, one turn of the loop.
MapIter(node, T, frame, g) ==
    LET name == node.keys[frame.it + 1]
        second == node.children[frame.it + 1]
        element == parseYaml(second, T.elem, g)
        tried == [frame EXCEPT !.attempted = Append(@, frame.it)]
    IN  IF element.how # "value"
        THEN Return(tried,
                    Error(appendTrace(element.error,
                          YamlNodeDescription(name, <<>>, second.kind))))
        ELSE [tried EXCEPT !.result = MapInsert(@, name, element.value),
                           !.it = @ + 1]

\* std::map, after the loop.
MapExit(frame) == Return(frame, Value(frame.result))

RECURSIVE MapLoop(_, _, _, _)
MapLoop(node, T, frame, g) ==
    IF frame.returned THEN frame
    ELSE IF frame.it = Size(node) THEN MapExit(frame)
    ELSE MapLoop(node, T, MapIter(node, T, frame, g), g)

\* convert(node, YamlResult<std::map<std::string, T>>)
convertMap(node, T, g) == MapLoop(node, T, MapEnter(node), g).ret

\* Overload resolution of convert(node, tag): the overload a viable tag selects.
Overload(tag) ==
    CASE tag.tag = "ParseYaml" /\ tag.type.k = "short" -> "convertShort"
      [] tag.tag = "ParseYaml" /\ tag.type.k = "array" -> "convertArray"
      [] tag.tag = "ParseYaml" /\ tag.type.k = "vector" -> "convertVector"
      [] tag.tag = "YamlResult" /\ tag.type.k = "map" -> "convertMap"

convert(node, tag, g) ==
    LET T == tag.type
        selected == Overload(tag)
    IN  CASE selected = "convertShort" -> convertShort(node)
          [] selected = "convertArray" -> convertArray(node, T, g)
          [] selected = "convertVector" -> convertVector(node, T, g)
          [] selected = "convertMap" -> convertMap(node, T, g)

\* parseYaml<T>(node): the static_assert, then the converter tagged ParseYaml<T>.
parseYaml(node, T, g) ==
    IF ~can_parse_yaml(T) THEN IllFormed
    ELSE convert(node, ParseYamlTag(T), g)

\* ------------------------------------------------- yaml-cpp's own conversion

\* The node that node[key] of a const node gives for a key that is not there:
\* not valid, and so not defined.
Zombie == [kind |-> "Zombie"]

Exception(type, what) == [type |-> type, what |-> what]

\* node[key] on a const YAML::Node with a string key: a scalar cannot be
\* subscripted, a map gives the first entry of that key, anything else gives
\* no child.
Subscript(node, key) ==
    IF node.kind = "Scalar"
    THEN Thrown(Exception("YAML::BadSubscript", <<"operator[] call on a scalar">>))
    ELSE IF node.kind = "Map" /\ \E i \in 1..Len(node.keys) : node.keys[i] = key
    THEN Value(node.children[CHOOSE i \in 1..Len(node.keys) :
                                /\ node.keys[i] = key
                                /\ \A j \in 1..(i - 1) : node.keys[j] # key])
    ELSE Value(Zombie)

\* YAML::Node::IsDefined, which operator bool and operator! test.
IsDefined(n) == n.kind \notin {"Zombie", "Undefined"}

Decoded(v) == [ok |-> TRUE, value |-> v]

NotDecoded == [ok |-> FALSE]

\* YAML::convert<short>::decode: a scalar whose whole text reads as a short.
decodeShort(n) ==
    IF /\ n.kind = "Scalar"
       /\ IsIntegerLiteral(n.text)
       /\ InShortRange(IntegerValue(n.text))
    THEN Decoded(IntegerValue(n.text))
    ELSE NotDecoded

RECURSIVE decode(_, _, _)
RECURSIVE decodeArrayLoop(_, _, _, _, _)
\* The loop of YAML::convert<std::array<T, N>>::decode, from position i.
decodeArrayLoop(n, T, i, result, g) ==
    IF ~(i < T.n) THEN Decoded(result)
    ELSE LET d == decode(n.children[i + 1], T.elem, g)
         IN  IF ~d.ok THEN NotDecoded
             ELSE decodeArrayLoop(n, T, i + 1, [result EXCEPT ![i + 1] = d.value], g)

\* YAML::convert<std::array<T, N>>::decode
decodeArray(n, T, g) ==
    IF n.kind # "Sequence" THEN NotDecoded
    ELSE IF Size(n) # T.n THEN NotDecoded
    ELSE decodeArrayLoop(n, T, 0, DefaultInit(T, g), g)

decode(n, T, g) ==
    CASE T.k = "short" -> decodeShort(n)
      [] T.k = "array" -> decodeArray(n, T, g)

\* YAML::Node::as<T>(): the decoded value, or an exception.
as(n, T, g) ==
    IF n.kind = "Zombie"
    THEN Thrown(Exception("YAML::InvalidNode", <<"invalid node">>))
    ELSE LET d == decode(n, T, g)
         IN  IF d.ok THEN Value(d.value)
             ELSE Thrown(Exception("YAML::TypedBadConversion", <<"bad conversion">>))

\* ------------------------------------------------------ key-lookup helpers

\* setIfExists without the test of node[key].
setIfExistsNoGuard(out, n, k, T, g) ==
    LET child == Subscript(n, k)
    IN  IF child.how = "thrown" THEN [output |-> out, ret |-> child]
        ELSE LET value == as(child.value, T, g)
             IN  IF value.how = "thrown" THEN [output |-> out, ret |-> value]
                 ELSE [output |-> value.value, ret |-> Returned]

\* setIfExists<T>(output, node, key): the output after the call and how the
\* call ended.
setIfExists(out, n, k, T, g) ==
    LET child == Subscript(n, k)
    IN  IF child.how = "thrown" THEN [output |-> out, ret |-> child]
        ELSE IF ~IsDefined(child.value) THEN [output |-> out, ret |-> Returned]
        ELSE LET value == as(child.value, T, g)
             IN  IF value.how = "thrown" THEN [output |-> out, ret |-> value]
                 ELSE [output |-> value.value, ret |-> Returned]

DetailedError(code, message) == [code |-> code, message |-> message]

\* convertChild<T>(node, key). The exceptions of yaml-cpp derive from
\* std::runtime_error, so the second handler takes them.
convertChild(n, k, T, g) ==
    LET child == Subscript(n, k)
    IN  IF child.how = "thrown" THEN child
        ELSE IF ~IsDefined(child.value)
        THEN Error(DetailedError("invalid_argument", <<"no such key: ">> \o k))
        ELSE LET value == as(child.value, T, g)
             IN  IF value.how = "thrown"
                 THEN Error(DetailedError("invalid_argument",
                            <<"failed to convert node: ">> \o value.exception.what))
                 ELSE value

\* ------------------------------------------------------------- the program

VARIABLES
    op,      \* the function the caller calls
    node,    \* the document tree it passes
    T,       \* the target type
    key,     \* the key looked up (setIfExists, convertChild)
    output,  \* the caller's object that setIfExists assigns to
    pc,      \* where the call is
    frame,   \* the locals of the running composite converter
    ret,     \* how the call ended
    prev     \* how the earlier calls with the same arguments ended

vars == <<op, node, T, key, output, pc, frame, ret, prev>>

\* The documents handed to parseYaml, and to the key-lookup helpers.
ParseNodes == TreesUpTo(MaxNodes) \cup MapNodes(2) \cup {UndefinedNode}

LookupNodes == MapNodes(MaxNodes) \cup Trees(1) \cup {UndefinedNode}

Init ==
    /\ op \in {"parseYaml", "setIfExists", "convertChild"}
    /\ IF op = "parseYaml"
       THEN /\ node \in ParseNodes
            /\ T \in TargetTypes
            /\ key = <<>>
            /\ output = <<>>
       ELSE /\ node \in LookupNodes
            /\ T \in LookupTypes
            /\ key \in Keys
            /\ output \in {DefaultInit(T, g) : g \in Indeterminate}
    /\ pc = "call"
    /\ frame = Frame(<<>>)
    /\ ret = NoOutcome
    /\ prev = <<>>

\* A converter's step: the call is over once the converter has returned.
Step(next, loop) ==
    /\ frame' = next
    /\ pc' = IF next.returned THEN "done" ELSE loop
    /\ ret' = next.ret
    /\ UNCHANGED <<op, node, T, key, output, prev>>

\* parseYaml<T>(node), up to the call of the converter.
ParseYaml ==
    /\ pc = "call"
    /\ op = "parseYaml"
    /\ pc' = IF can_parse_yaml(T) THEN Overload(ParseYamlTag(T)) ELSE "done"
    /\ ret' = IF can_parse_yaml(T) THEN NoOutcome ELSE IllFormed
    /\ UNCHANGED <<op, node, T, key, output, frame, prev>>

ConvertShort ==
    /\ pc = "convertShort"
    /\ pc' = "done"
    /\ ret' = convertShort(node)
    /\ UNCHANGED <<op, node, T, key, output, frame, prev>>

ConvertArrayEnter ==
    /\ pc = "convertArray"
    /\ \E g \in Indeterminate : Step(ArrayEnter(node, T, g), "arrayLoop")

ConvertArrayIter ==
    /\ pc = "arrayLoop"
    /\ frame.it # Size(node)
    /\ \E g \in Indeterminate : Step(ArrayIter(node, T, frame, g), "arrayLoop")

ConvertArrayExit ==
    /\ pc = "arrayLoop"
    /\ frame.it = Size(node)
    /\ Step(ArrayExit(frame), "arrayLoop")

ConvertVectorEnter ==
    /\ pc = "convertVector"
    /\ Step(VectorEnter(node), "vectorLoop")

ConvertVectorIter ==
    /\ pc = "vectorLoop"
    /\ frame.it # Size(node)
    /\ \E g \in Indeterminate : Step(VectorIter(node, T, frame, g), "vectorLoop")

ConvertVectorExit ==
    /\ pc = "vectorLoop"
    /\ frame.it = Size(node)
    /\ Step(VectorExit(frame), "vectorLoop")

SetIfExists ==
    /\ pc = "call"
    /\ op = "setIfExists"
    /\ \E g \in Indeterminate :
          LET after == setIfExists(output, node, key, T, g)
          IN  /\ output' = after.output
              /\ ret' = after.ret
    /\ pc' = "done"
    /\ UNCHANGED <<op, node, T, key, frame, prev>>

ConvertChild ==
    /\ pc = "call"
    /\ op = "convertChild"
    /\ \E g \in Indeterminate : ret' = convertChild(node, key, T, g)
    /\ pc' = "done"
    /\ UNCHANGED <<op, node, T, key, output, frame, prev>>

\* The caller makes the same call once more.
Again ==
    /\ pc = "done"
    /\ prev = <<>>
    /\ prev' = <<ret>>
    /\ pc' = "call"
    /\ frame' = Frame(<<>>)
    /\ ret' = NoOutcome
    /\ UNCHANGED <<op, node, T, key, output>>

Next ==
    \/ ParseYaml
    \/ ConvertShort
    \/ ConvertArrayEnter
    \/ ConvertArrayIter
    \/ ConvertArrayExit
    \/ ConvertVectorEnter
    \/ ConvertVectorIter
    \/ ConvertVectorExit
    \/ SetIfExists
    \/ ConvertChild
    \/ Again

Spec == Init /\ [][Next]_vars

\* ------------------------------------------------------------------ claims

\* A call of parseYaml<T> that has ended, T a type with a conversion.
ParsedAs(k) ==
    /\ pc = "done"
    /\ op = "parseYaml"
    /\ T.k = k
    /\ can_parse_yaml(T)

\* Whether the pieces of `part` occur, in a row, in message.
Contains(message, part) ==
    \E i \in 1..(Len(message) - Len(part) + 1) :
        SubSeq(message, i, i + Len(part) - 1) = part

KindMismatch(outcome, expected, actual) ==
    /\ outcome.how = "error"
    /\ outcome.error.message = <<expected>> \o toString(actual)
    /\ outcome.error.trace = <<>>

\* Whether element i (from 1) of node converts to the element type of T.
Converts(n, E) == \A g \in Indeterminate : parseYaml(n, E, g).how = "value"

\* The positions 0, 1, ..., n - 1.
Upto(n) == [i \in 1..n |-> i - 1]

\* C1: the std::array converter succeeds only on a sequence of exactly N
\* elements; a node of another kind gives a kind-mismatch error, a sequence
\* of another length L gives an error whose message holds N and L, and no
\* element is converted in either case.
C1_ArrayShape ==
    ParsedAs("array") =>
        /\ node.kind # "Sequence" =>
              /\ KindMismatch(ret, "unexpected node type, expected sequence, got ", node.kind)
              /\ frame.attempted = <<>>
        /\ (node.kind = "Sequence" /\ Size(node) # T.n) =>
              /\ ret.how = "error"
              /\ ret.error.message[1] = "wrong number of elements, expected "
              /\ ret.error.trace = <<>>
              /\ Contains(ret.error.message, to_string(T.n))
              /\ Contains(ret.error.message, to_string(Size(node)))
              /\ frame.attempted = <<>>
        /\ ret.how = "value" => (node.kind = "Sequence" /\ Size(node) = T.n)

C1_Witness ==
    /\ ParsedAs("array")
    /\ node.kind = "Sequence"
    /\ Size(node) > T.n
    /\ T.n > 1
    /\ ret.how = "error"

\* The elements of node that do not convert to the element type of T.
Failing == {i \in 1..Size(node) : ~Converts(node.children[i], T.elem)}

FirstFailing == CHOOSE i \in Failing : \A j \in Failing : i <= j

\* The converter has passed its checks of the node and runs, or ran, its loop.
InLoop ==
    /\ op = "parseYaml"
    /\ T.k \in {"array", "vector"}
    /\ can_parse_yaml(T)
    /\ pc \in {"arrayLoop", "vectorLoop", "done"}
    /\ node.kind = "Sequence"
    /\ T.k = "array" => Size(node) = T.n

\* C2: the std::array and std::vector converters convert the elements in
\* ascending order and stop at the first that fails: the error returned is
\* that element's, with one description appended (the element's index as
\* text, the element's kind), and no later element is converted.
C2_FirstFailureStops ==
    InLoop =>
        /\ frame.attempted = Upto(Len(frame.attempted))
        /\ (pc = "done" /\ Failing # {}) =>
              LET i == node.children[FirstFailing]
              IN  /\ ret.how = "error"
                  /\ frame.attempted = Upto(FirstFailing)
                  /\ \A g \in Indeterminate :
                        LET e == parseYaml(i, T.elem, g).error
                        IN  /\ ret.error.message = e.message
                            /\ ret.error.trace =
                                  e.trace \o <<[name |-> to_string(FirstFailing - 1),
                                                user_type |-> <<>>,
                                                node_type |-> i.kind]>>

C2_Witness ==
    /\ InLoop
    /\ pc = "done"
    /\ ret.how = "error"
    /\ Len(frame.attempted) = 2
    /\ Size(node) > 2

\* The failure of a node that is the node's own: its kind, its length or its
\* text is wrong for the type E, and message says so.
OwnFailure(n, E, message) ==
    CASE E.k = "short" ->
            /\ convertShort(n).how = "error"
            /\ message = convertShort(n).error.message
      [] E.k = "array" ->
            /\ n.kind # "Sequence" \/ Size(n) # E.n
            /\ message = ArrayEnter(n, E, 0).ret.error.message
      [] E.k = "vector" ->
            /\ n.kind \notin {"Null", "Sequence"}
            /\ message = VectorEnter(n).ret.error.message
      [] OTHER -> FALSE

RECURSIVE LeadsToFailure(_, _, _, _)
\* trace, read from its last description to its first, names a path from n
\* down to a node that fails on its own with message; each description holds
\* the index and the kind of the child the path takes.
LeadsToFailure(n, E, trace, message) ==
    IF trace = <<>> THEN OwnFailure(n, E, message)
    ELSE LET d == trace[Len(trace)]
         IN  /\ E.k \in {"array", "vector"}
             /\ n.kind = "Sequence"
             /\ d.user_type = <<>>
             /\ \E i \in 1..Size(n) :
                   /\ d.name = to_string(i - 1)
                   /\ d.node_type = n.children[i].kind
                   /\ LeadsToFailure(n.children[i], E.elem,
                                     SubSeq(trace, 1, Len(trace) - 1), message)

\* C3: an error that comes out of nested composite converters carries the
\* message of the innermost failure and one description per level between
\* the failing node and the node passed in, failure site first, root last.
C3_TraceIsPathToFailure ==
    (pc = "done" /\ op = "parseYaml" /\ ret.how = "error") =>
        LeadsToFailure(node, T, ret.error.trace, ret.error.message)

C3_Witness ==
    /\ pc = "done"
    /\ op = "parseYaml"
    /\ ret.how = "error"
    /\ Len(ret.error.trace) = 2
    /\ ret.error.trace[1].name = <<"1">>
    /\ ret.error.trace[2].name = <<"0">>

\* C4: parseYaml<std::map<std::string, T>> is accepted for every T that has
\* a conversion, and gives what the std::map converter gives: a kind-mismatch
\* error on a node that is no map, else the entries' values or the first
\* failing entry's error with the entry's key appended.
C4_MappingDispatched ==
    (pc = "done" /\ op = "parseYaml" /\ T.k = "map" /\ can_parse_yaml(T.elem)) =>
        /\ ret.how \in {"value", "error"}
        /\ \A g \in Indeterminate : ret = convertMap(node, T, g)
        /\ node.kind # "Map" => KindMismatch(ret, "unexpected node type, expected map, got ", node.kind)

KeyPresent(n, k) == n.kind = "Map" /\ \E i \in 1..Len(n.keys) : n.keys[i] = k

\* Whether yaml-cpp converts the value of key k in map n to type E.
ChildDecodes(n, k, E) ==
    \A g \in Indeterminate : decode(Subscript(n, k).value, E, g).ok

\* C5: setIfExists on a map that has the key, with a value that does not
\* convert, ends with an error returned to the caller, not with an exception.
C5_SetIfExistsReturnsError ==
    (/\ pc = "done"
     /\ op = "setIfExists"
     /\ KeyPresent(node, key)
     /\ ~ChildDecodes(node, key, T)) =>
        ret.how = "error"

\* C6: convertChild ends, for a node of any kind, with a result of this
\* layer: "no such key" when the key is absent, the value when the child
\* converts, else an error; no exception leaves it.
C6_ConvertChildNeverThrows ==
    (pc = "done" /\ op = "convertChild") =>
        /\ ret.how \in {"value", "error"}
        /\ ~KeyPresent(node, key) =>
              /\ ret.how = "error"
              /\ ret.error.message = <<"no such key: ">> \o key

\* C7: the std::vector converter gives the empty vector for a null node, a
\* kind-mismatch error for any other node that is no sequence, and for a
\* sequence whose L elements all convert the L converted values, in order.
C7_VectorShape ==
    ParsedAs("vector") =>
        /\ node.kind = "Null" => ret = Value(<<>>)
        /\ node.kind \notin {"Null", "Sequence"} =>
              KindMismatch(ret, "unexpected node type, expected sequence, got ", node.kind)
        /\ (node.kind = "Sequence" /\ Failing = {}) =>
              /\ ret.how = "value"
              /\ Len(ret.value) = Size(node)
              /\ \A i \in 1..Size(node) : \A g \in Indeterminate :
                    ret.value[i] = parseYaml(node.children[i], T.elem, g).value

C7_Witness ==
    /\ ParsedAs("vector")
    /\ node.kind = "Sequence"
    /\ Size(node) = 2
    /\ ret.how = "value"
    /\ ret.value[1] # ret.value[2]

\* A step that is a whole call of setIfExists.
SetIfExistsCall == pc = "call" /\ op = "setIfExists" /\ pc' = "done"

\* C8: setIfExists on a map without the key leaves the output as it was and
\* reports nothing; the output changes only when the key is there and its
\* value converts.
C8_MissingKeyKeepsOutput ==
    [][(SetIfExistsCall /\ node.kind = "Map") =>
          /\ ~KeyPresent(node, key) => (output' = output /\ ret' = Returned)
          /\ output' # output =>
                (KeyPresent(node, key) /\ ChildDecodes(node, key, T))]_vars

C8_Witness ==
    /\ pc = "done"
    /\ op = "setIfExists"
    /\ node.kind = "Map"
    /\ Size(node) > 0
    /\ ~KeyPresent(node, key)
    /\ ret = Returned

\* C9: a conversion leaves the document as it is, and the same call made
\* again ends as it did the first time: the same value, or the same message
\* and the same trace.
C9_ReadOnlyAndRepeatable ==
    [][/\ node' = node
       /\ (pc' = "done" /\ op = "parseYaml" /\ prev' # <<>>) => ret' = prev'[1]]_vars

C9_Witness ==
    /\ pc = "done"
    /\ op = "parseYaml"
    /\ prev # <<>>
    /\ T.k = "array"
    /\ T.elem.k = "array"
    /\ ret.how = "value"

\* C10: the std::array converter writes slots 0 to N - 1 only, never returns
\* "sequence too long", and on success has written each slot once, slot i
\* with the conversion of element i.
C10_ArrayWritesInBounds ==
    (op = "parseYaml" /\ T.k = "array" /\ can_parse_yaml(T)) =>
        /\ \A w \in 1..Len(frame.writes) :
              0 <= frame.writes[w] /\ frame.writes[w] < T.n
        /\ pc = "arrayLoop" => (frame.index = frame.it /\ Size(node) = T.n)
        /\ ret.how = "error" => ~Contains(ret.error.message, <<"sequence too long, expected ">>)
        /\ (pc = "done" /\ ret.how = "value") =>
              /\ frame.writes = Upto(T.n)
              /\ \A i \in 1..T.n : \A g \in Indeterminate :
                    ret.value[i] = parseYaml(node.children[i], T.elem, g).value

C10_Witness ==
    /\ ParsedAs("array")
    /\ T.n = 2
    /\ ret.how = "value"
    /\ frame.writes = <<0, 1>>
    /\ ret.value[1] # ret.value[2]

====
